---- MODULE Spec2Model ----
(***************************************************************************)
(* A model of the C/C++ module creator extension (src/src/extension.ts):   *)
(* placeholder substitution, the default templates, the template directory *)
(* search, the template directory cache with its refresh command, and the  *)
(* module scaffolder.                                                      *)
(*                                                                         *)
(* Text is modelled as a sequence of symbols.  A symbol is a run of        *)
(* characters that the model never splits: "@", "MODULE_NAME", "_UPPER",   *)
(* ...  No symbol but "@" holds an '@', and no two different symbol        *)
(* sequences spell the same text, so a regular expression such as          *)
(* /@MODULE_NAME@/g matches the text exactly where its symbol sequence     *)
(* <<"@", "MODULE_NAME", "@">> occurs in the symbol sequence.              *)
(***************************************************************************)
EXTENDS Integers, Sequences, FiniteSets, TLC

(***************************************************************************)
(* Bounds of the model.                                                    *)
(***************************************************************************)
\* longest template body drawn as an input of the substitution
MaxLen == 5
\* longest module name, in symbols
MaxNameLen == 2
\* longest chain of plain directories below a search root at the start
MaxSpine == 12
\* directories the environment may add below the end of that chain
MaxExtraDirs == 2
\* plain files that Fill puts into a directory
BulkSize == 10
\* createModule commands in one behaviour
MaxRuns == 2

(***************************************************************************)
(* Constants of the program.                                               *)
(***************************************************************************)
\* searchRecursively: "if (depth > 10) return"
MaxDepth == 10
\* searchRecursively: "if (subEntries.length > 10) continue"
MaxEntries == 10

VARIABLES
    sub,        \* the substitution on its own: [content, name, result, done]
    dirs,       \* the directories of the file system, each a path
    bulky,      \* the directories that hold BulkSize plain files
    files,      \* the template files: path |-> [body, readable]
    located,    \* the last findTemplateDirs run: [ran, root, found]
    workspaceFolders,   \* the roots of the open workspace folders, in order
                        \* (<<>>: vscode.workspace.workspaceFolders is undefined)
    templateDirs,       \* globalState 'templateDirs': [defined, list]
    outDirs,    \* the directories below the target directory
    outFiles,   \* the files below the target directory: path |-> content
    hist,       \* since the last refresh: [calls, searchedAt]; [runs] in all
    last        \* the last command: [cmd, name, ok, sources, notices, discovered]

vars == <<sub, dirs, bulky, files, located, workspaceFolders, templateDirs,
          outDirs, outFiles, hist, last>>

(***************************************************************************)
(* Text.                                                                   *)
(***************************************************************************)
\* the symbols a template body is drawn from
ContentSyms == {"@", "MODULE_NAME", "_UPPER", "_LOWER", "FOO"}

\* the symbols a module name is drawn from, and those that begin with a letter
NameSyms == {"MODULE_NAME", "module_name", "_UPPER", "-", "src"}
LetterSyms == {"MODULE_NAME", "module_name", "src"}

\* String.prototype.toLowerCase, symbol by symbol
LowerSym(c) ==
    CASE c = "MODULE_NAME" -> "module_name"
      [] c = "_UPPER" -> "_upper"
      [] c = "_LOWER" -> "_lower"
      [] c = "FOO" -> "foo"
      [] c = "SRC" -> "src"
      [] OTHER -> c

\* String.prototype.toUpperCase, symbol by symbol
UpperSym(c) ==
    CASE c = "module_name" -> "MODULE_NAME"
      [] c = "_upper" -> "_UPPER"
      [] c = "_lower" -> "_LOWER"
      [] c = "foo" -> "FOO"
      [] c = "src" -> "SRC"
      [] OTHER -> c

toLowerCase(s) == [i \in 1..Len(s) |-> LowerSym(s[i])]
toUpperCase(s) == [i \in 1..Len(s) |-> UpperSym(s[i])]

\* the validateInput callback of the module name prompt: TRUE when the text
\* is accepted (the callback returns null)
validateInput(text) ==
    /\ text # <<>>
    /\ text[1] \in LetterSyms
    /\ \A i \in 1..Len(text) : text[i] \in NameSyms

\* content.replace(/pat/g, rep): the matches are found left to right in the
\* original text, do not overlap, and the replacement is not scanned again
RECURSIVE ReplaceAll(_, _, _)
ReplaceAll(s, pat, rep) ==
    IF Len(s) < Len(pat) THEN s
    ELSE IF SubSeq(s, 1, Len(pat)) = pat
         THEN rep \o ReplaceAll(SubSeq(s, Len(pat) + 1, Len(s)), pat, rep)
         ELSE <<Head(s)>> \o ReplaceAll(Tail(s), pat, rep)

TokName == <<"@", "MODULE_NAME", "@">>
TokUpper == <<"@", "MODULE_NAME", "_UPPER", "@">>
TokLower == <<"@", "MODULE_NAME", "_LOWER", "@">>

\* the three successive replacements of getTemplateContent
Substitute(content, moduleName) ==
    LET lowerModuleName == toLowerCase(moduleName)
        upperModuleName == toUpperCase(moduleName)
        c1 == ReplaceAll(content, TokName, moduleName)
        c2 == ReplaceAll(c1, TokUpper, lowerModuleName)
        c3 == ReplaceAll(c2, TokLower, upperModuleName)
    IN  c3

(***************************************************************************)
(* The file system.  A path is the sequence of its names.                  *)
(***************************************************************************)
\* the order in which readdirSync lists the names of a directory
ListingOrder ==
    <<".templates", "a", "b", "build", "template.CMakeLists.txt",
      "template.header.hpp", "template.src.cpp", "template.test.CMakeLists.txt",
      "template.test.cpp", "templates">>

Front(p) == SubSeq(p, 1, Len(p) - 1)
Parent(p) == Front(p)
Last(p) == p[Len(p)]
IsPrefix(p, q) == Len(p) <= Len(q) /\ SubSeq(q, 1, Len(p)) = p

\* path.join(dir, name)
Join(dir, name) == Append(dir, name)

\* fs.existsSync(path) of a template file path
existsSync(path) == path \in DOMAIN files

\* the names of the subdirectories of dir, in listing order: the entries of
\* readdirSync(dir, {withFileTypes: true}) with entry.isDirectory()
SubDirNames(dir) == SelectSeq(ListingOrder, LAMBDA n : Join(dir, n) \in dirs)

\* the names of the template files of dir
FileNames(dir) == {n \in {ListingOrder[i] : i \in DOMAIN ListingOrder} :
                     Join(dir, n) \in DOMAIN files}

\* fs.readdirSync(dir).length
EntryCount(dir) ==
    Len(SubDirNames(dir)) + Cardinality(FileNames(dir))
        + (IF dir \in bulky THEN BulkSize ELSE 0)

(***************************************************************************)
(* The template directory search.                                          *)
(***************************************************************************)
ignoreDirs ==
    {"node_modules", ".git", ".svn", ".hg", "build", "dist", "out",
     "target", "bin", "obj", ".vscode-test", "__pycache__", ".pytest_cache",
     "CMakeFiles", ".vs", ".idea", "Debug", "Release", "x64", "x86"}

TemplateDirNames == {"templates", ".templates"}

\* the five template file names, in the order createModuleStructure uses them
optionalTemplates ==
    <<"template.header.hpp", "template.src.cpp", "template.test.cpp",
      "template.CMakeLists.txt", "template.test.CMakeLists.txt">>

TemplateNames == {optionalTemplates[i] : i \in DOMAIN optionalTemplates}

hasTemplateFiles(templateDir) ==
    Cardinality(FileNames(templateDir) \cap TemplateNames) >= 1

\* the directories searchRecursively(currentDir, depth) pushes, in order;
\* searchEntries is its loop over the remaining entries
RECURSIVE searchRecursively(_, _), searchEntries(_, _, _)
\* searchEntries with the "continue" of a template directory inside the
\* test for template files: a candidate without any is searched like a
\* plain directory
searchEntries_Fallthrough(currentDir, entries, depth) ==
    IF entries = <<>> THEN <<>>
    ELSE LET name == Head(entries)
             fullPath == Join(currentDir, name)
             here ==
                 IF (name = "templates" \/ name = ".templates")
                        /\ hasTemplateFiles(fullPath)
                 THEN <<fullPath>>
                 ELSE IF name \in ignoreDirs THEN <<>>
                 ELSE IF EntryCount(fullPath) > MaxEntries THEN <<>>
                 ELSE searchRecursively(fullPath, depth + 1)
         IN  here \o searchEntries(currentDir, Tail(entries), depth)

searchEntries(currentDir, entries, depth) ==
    IF entries = <<>> THEN <<>>
    ELSE LET name == Head(entries)
             fullPath == Join(currentDir, name)
             here ==
                 IF name = "templates" \/ name = ".templates"
                 THEN IF hasTemplateFiles(fullPath) THEN <<fullPath>> ELSE <<>>
                 ELSE IF name \in ignoreDirs THEN <<>>
                 ELSE IF EntryCount(fullPath) > MaxEntries THEN <<>>
                 ELSE searchRecursively(fullPath, depth + 1)
         IN  here \o searchEntries(currentDir, Tail(entries), depth)

searchRecursively(currentDir, depth) ==
    IF depth > MaxDepth THEN <<>>
    ELSE searchEntries(currentDir, SubDirNames(currentDir), depth)

\* a.split(path.sep).length of an absolute path: one more than its names
SplitLength(p) == Len(p) + 1

\* templateDirs.sort((a, b) => depthA - depthB): a stable sort, done by
\* insertion
RECURSIVE InsertByDepth(_, _), SortByDepth(_)
InsertByDepth(sorted, p) ==
    IF sorted = <<>> THEN <<p>>
    ELSE IF SplitLength(Last(sorted)) - SplitLength(p) <= 0
         THEN Append(sorted, p)
         ELSE Append(InsertByDepth(Front(sorted), p), Last(sorted))

SortByDepth(s) ==
    IF s = <<>> THEN <<>>
    ELSE InsertByDepth(SortByDepth(Front(s)), Last(s))

findTemplateDirs(rootDir) == SortByDepth(searchRecursively(rootDir, 0))

(***************************************************************************)
(* The default templates.                                                  *)
(***************************************************************************)
\* getDefaultTemplate with the last case label misspelt
getDefaultTemplate_Slip(templateName, moduleName) ==
    CASE templateName = "template.header.hpp" -> <<"// Blank header">>
      [] templateName = "template.src.cpp" -> <<"// Blank src">>
      [] templateName = "template.test.cpp" -> <<"// Blank test">>
      [] templateName = "template.CMakeLists.txt" -> <<"# Blank cmake">>
      [] OTHER -> <<"// Generated file for ">> \o moduleName \o <<"\n">>

getDefaultTemplate(templateName, moduleName) ==
    CASE templateName = "template.header.hpp" -> <<"// Blank header">>
      [] templateName = "template.src.cpp" -> <<"// Blank src">>
      [] templateName = "template.test.cpp" -> <<"// Blank test">>
      [] templateName = "template.CMakeLists.txt" -> <<"# Blank cmake">>
      [] templateName = "template.test.CMakeLists.txt" -> <<"# Blank test cmake">>
      [] OTHER -> <<"// Generated file for ">> \o moduleName \o <<"\n">>

(***************************************************************************)
(* The template resolver and its cache.                                    *)
(***************************************************************************)
\* !context.globalState.get('templateDirs'): an array, also an empty one, is
\* truthy
\* the cache test that takes an empty list for no list
CacheMissing_Empty(cache) == ~cache.defined \/ cache.list = <<>>

CacheMissing(cache) == ~cache.defined

\* the loop over the workspace folders: allTemplateDirs.concat(templateDirs)
RECURSIVE findAll(_)
findAll(folders) ==
    IF folders = <<>> THEN <<>>
    ELSE findAll(Front(folders)) \o findTemplateDirs(Last(folders))

\* the loop of getTemplateContent over the cached directories from index k:
\* the content returned, the index of the directory it came from (0: the
\* default template) and the number of error messages shown
RECURSIVE tryDirs(_, _, _, _)
\* the loop that gives up at the first file it cannot read
tryDirs_Abort(list, k, templateName, moduleName) ==
    IF k > Len(list)
    THEN [content |-> getDefaultTemplate(templateName, moduleName),
          source |-> 0, notices |-> 0]
    ELSE LET templatePath == Join(list[k], templateName)
         IN  IF existsSync(templatePath)
             THEN IF files[templatePath].readable
                  THEN [content |-> Substitute(files[templatePath].body, moduleName),
                        source |-> k, notices |-> 0]
                  ELSE [content |-> getDefaultTemplate(templateName, moduleName),
                        source |-> 0, notices |-> 1]
             ELSE tryDirs(list, k + 1, templateName, moduleName)

tryDirs(list, k, templateName, moduleName) ==
    IF k > Len(list)
    THEN [content |-> getDefaultTemplate(templateName, moduleName),
          source |-> 0, notices |-> 0]
    ELSE LET templatePath == Join(list[k], templateName)
         IN  IF existsSync(templatePath)
             THEN IF files[templatePath].readable
                  THEN [content |-> Substitute(files[templatePath].body, moduleName),
                        source |-> k, notices |-> 0]
                  ELSE LET rest == tryDirs(list, k + 1, templateName, moduleName)
                       IN  [rest EXCEPT !.notices = @ + 1]
             ELSE tryDirs(list, k + 1, templateName, moduleName)

\* getTemplateContent, from the cache as it finds it: the cache as it leaves
\* it, whether findTemplateDirs ran, and the result of the loop
getTemplateContent(cache, templateName, moduleName) ==
    LET stored == IF CacheMissing(cache)
                  THEN [defined |-> TRUE, list |-> findAll(workspaceFolders)]
                  ELSE cache
        r == tryDirs(stored.list, 1, templateName, moduleName)
    IN  [cache |-> stored,
         searched |-> CacheMissing(cache) /\ workspaceFolders # <<>>,
         content |-> r.content, source |-> r.source, notices |-> r.notices]

(***************************************************************************)
(* The module scaffolder.  The paths are relative to the target directory; *)
(* a name of a path is text.                                               *)
(***************************************************************************)
ModuleDirs(moduleName) ==
    <<  <<moduleName>>,
        <<moduleName, <<"include">>, moduleName>>,
        <<moduleName, <<"src">>>>,
        <<moduleName, <<"tests">>>>  >>

\* the file list with the header where the README draws it, in include/
ModuleFiles_Readme(moduleName) ==
    << [path |-> <<moduleName, <<"include">>, moduleName \o <<".hpp">>>>,
        template |-> "template.header.hpp"],
       [path |-> <<moduleName, <<"src">>, moduleName \o <<".cpp">>>>,
        template |-> "template.src.cpp"],
       [path |-> <<moduleName, <<"tests">>, <<"test_">> \o moduleName \o <<".cpp">>>>,
        template |-> "template.test.cpp"],
       [path |-> <<moduleName, <<"CMakeLists.txt">>>>,
        template |-> "template.CMakeLists.txt"],
       [path |-> <<moduleName, <<"tests">>, <<"CMakeLists.txt">>>>,
        template |-> "template.test.CMakeLists.txt"] >>

ModuleFiles(moduleName) ==
    << [path |-> <<moduleName, <<"include">>, moduleName, moduleName \o <<".hpp">>>>,
        template |-> "template.header.hpp"],
       [path |-> <<moduleName, <<"src">>, moduleName \o <<".cpp">>>>,
        template |-> "template.src.cpp"],
       [path |-> <<moduleName, <<"tests">>, <<"test_">> \o moduleName \o <<".cpp">>>>,
        template |-> "template.test.cpp"],
       [path |-> <<moduleName, <<"CMakeLists.txt">>>>,
        template |-> "template.CMakeLists.txt"],
       [path |-> <<moduleName, <<"tests">>, <<"CMakeLists.txt">>>>,
        template |-> "template.test.CMakeLists.txt"] >>

\* fs.mkdirSync(dir, {recursive: true}): dir and the ancestors it lacks
Prefixes(p) == {SubSeq(p, 1, k) : k \in 1..Len(p)}

\* the directories after the first n directories of the list are ensured
MkDirs(list, n, have) ==
    have \cup UNION {Prefixes(list[k]) : k \in 1..n}

\* the file loop from file i, where the I/O call number fault throws (the
\* four mkdirSync calls are calls 1 to 4, the writeFileSync of file i is call
\* 4 + i; 0: none throws).  st carries the cache, the files, and the record
\* of the calls: [cache, out, sources, notices, calls, searchedAt]
RECURSIVE writeFiles(_, _, _, _)
writeFiles(i, fault, moduleName, st) ==
    LET plan == ModuleFiles(moduleName)
    IN  IF i > Len(plan) THEN st
        ELSE LET r == getTemplateContent(st.cache, plan[i].template, moduleName)
                 called == [st EXCEPT
                              !.cache = r.cache,
                              !.notices = @ + r.notices,
                              !.calls = @ + 1,
                              !.searchedAt = IF r.searched
                                             THEN @ \cup {st.calls + 1} ELSE @]
             IN  IF fault = 4 + i THEN called
                 ELSE writeFiles(i + 1, fault, moduleName,
                        [called EXCEPT
                           !.out = [q \in DOMAIN st.out \cup {plan[i].path} |->
                                      IF q = plan[i].path THEN r.content
                                      ELSE st.out[q]],
                           !.sources = Append(@, r.source)])

(***************************************************************************)
(* The commands.                                                           *)
(***************************************************************************)
\* a file system without files
NoFiles == [f \in {} |-> f]

Undefined == [defined |-> FALSE, list |-> <<>>]

\* the createModule command with the module name the prompt accepted, up to
\* the end of createModuleStructure or to the I/O call that throws
createModule(moduleName, fault) ==
    /\ validateInput(moduleName)
    /\ hist.runs < MaxRuns
    /\ fault \in 1..4 =>
          ModuleDirs(moduleName)[fault]
              \notin MkDirs(ModuleDirs(moduleName), fault - 1, outDirs)
    /\ LET made == IF fault \in 1..4 THEN fault - 1 ELSE 4
           st0 == [cache |-> templateDirs, out |-> outFiles, sources |-> <<>>,
                   notices |-> 0, calls |-> hist.calls,
                   searchedAt |-> hist.searchedAt]
           st == IF fault \in 1..4 THEN st0
                 ELSE writeFiles(1, fault, moduleName, st0)
       IN  /\ outDirs' = MkDirs(ModuleDirs(moduleName), made, outDirs)
           /\ outFiles' = st.out
           /\ templateDirs' = st.cache
           /\ hist' = [calls |-> st.calls, searchedAt |-> st.searchedAt,
                       runs |-> hist.runs + 1]
           /\ last' = [cmd |-> "createModule", name |-> moduleName,
                       ok |-> fault = 0, sources |-> st.sources,
                       notices |-> st.notices, discovered |-> <<>>]
    /\ UNCHANGED <<sub, dirs, bulky, files, located, workspaceFolders>>

\* the createModule command when the user gives no target or no name
createModuleCancelled ==
    /\ last.cmd # "cancelled"
    /\ last' = [cmd |-> "cancelled", name |-> <<>>, ok |-> FALSE,
                sources |-> <<>>, notices |-> 0, discovered |-> <<>>]
    /\ UNCHANGED <<sub, dirs, bulky, files, located, workspaceFolders,
                   templateDirs, outDirs, outFiles, hist>>

\* the refreshTemplates command
refreshTemplates ==
    LET allTemplateDirs == findAll(workspaceFolders)
    IN  /\ templateDirs' =
              IF workspaceFolders = <<>> THEN Undefined
              ELSE IF Len(allTemplateDirs) > 0
                   THEN [defined |-> TRUE, list |-> allTemplateDirs]
                   ELSE Undefined
        /\ hist' = [hist EXCEPT !.calls = 0, !.searchedAt = {}]
        /\ last' = [cmd |-> "refreshTemplates", name |-> <<>>, ok |-> TRUE,
                    sources |-> <<>>, notices |-> 0,
                    discovered |-> allTemplateDirs]
        /\ UNCHANGED <<sub, dirs, bulky, files, located, workspaceFolders,
                       outDirs, outFiles>>

(***************************************************************************)
(* The environment: other programs change the file system.                 *)
(***************************************************************************)
Mkdir(path) ==
    /\ path \notin dirs
    /\ Parent(path) \in dirs
    /\ dirs' = dirs \cup {path}
    /\ UNCHANGED <<sub, bulky, files, located, workspaceFolders, templateDirs,
                   outDirs, outFiles, hist, last>>

Rmdir(path) ==
    /\ path \in dirs
    /\ dirs' = {d \in dirs : ~IsPrefix(path, d)}
    /\ bulky' = {d \in bulky : ~IsPrefix(path, d)}
    /\ files' = [f \in {g \in DOMAIN files : ~IsPrefix(path, g)} |-> files[f]]
    /\ UNCHANGED <<sub, located, workspaceFolders, templateDirs,
                   outDirs, outFiles, hist, last>>

PutTemplate(dir, name, body, readable) ==
    /\ dir \in dirs
    /\ Join(dir, name) \notin dirs
    /\ ~(/\ Join(dir, name) \in DOMAIN files
         /\ files[Join(dir, name)] = [body |-> body, readable |-> readable])
    /\ files' = [f \in DOMAIN files \cup {Join(dir, name)} |->
                    IF f = Join(dir, name)
                    THEN [body |-> body, readable |-> readable]
                    ELSE files[f]]
    /\ UNCHANGED <<sub, dirs, bulky, located, workspaceFolders, templateDirs,
                   outDirs, outFiles, hist, last>>

Fill(dir) ==
    /\ dir \in dirs
    /\ dir \notin bulky
    /\ bulky' = bulky \cup {dir}
    /\ UNCHANGED <<sub, dirs, files, located, workspaceFolders, templateDirs,
                   outDirs, outFiles, hist, last>>

(***************************************************************************)
(* The system: the two commands over a workspace of two folders.           *)
(***************************************************************************)
W1 == <<"w1">>
W2 == <<"w2">>

\* the places where the environment makes and removes template directories
Sites == {<<"w1", "templates">>, <<"w1", "a", "templates">>, <<"w2", ".templates">>}

\* the template files the environment writes, and what it writes
DiskNames == {"template.header.hpp"}
SiteBody(dir) ==
    CASE dir = <<"w1", "templates">> -> <<"@", "MODULE_NAME", "@">>
      [] dir = <<"w1", "a", "templates">> -> <<"FOO", "@", "MODULE_NAME", "_UPPER", "@">>
      [] OTHER -> <<"@", "MODULE_NAME", "_LOWER", "@", "FOO">>

\* the module names the user types
TypedNames == {<<"module_name", "-", "_UPPER">>}

NoCommand == [cmd |-> "none", name |-> <<>>, ok |-> FALSE, sources |-> <<>>,
              notices |-> 0, discovered |-> <<>>]

Init ==
    /\ sub = [content |-> <<>>, name |-> <<>>, result |-> <<>>, done |-> FALSE]
    /\ dirs = {W1, <<"w1", "a">>, W2}
    /\ bulky = {}
    /\ files = NoFiles
    /\ located = [ran |-> FALSE, root |-> <<>>, found |-> <<>>]
    /\ workspaceFolders \in {<<>>, <<W1>>, <<W1, W2>>}
    /\ templateDirs = Undefined
    /\ outDirs = {}
    /\ outFiles = NoFiles
    /\ hist = [calls |-> 0, searchedAt |-> {}, runs |-> 0]
    /\ last = NoCommand

Next ==
    \/ \E m \in TypedNames : createModule(m, 0)
    \/ createModuleCancelled
    \/ refreshTemplates
    \/ \E p \in Sites : Mkdir(p)
    \/ \E p \in Sites : Rmdir(p)
    \/ \E p \in Sites, n \in DiskNames, r \in BOOLEAN :
          PutTemplate(p, n, SiteBody(p), r)

Spec == Init /\ [][Next]_vars

(***************************************************************************)
(* The scaffolder on its own: every module name, failing I/O calls, one     *)
(* template directory.  The runs of one behaviour are for one module (a    *)
(* run for another name works in another subtree of the target directory). *)
(***************************************************************************)
\* the texts of at most n symbols of S
Texts(S, n) == UNION {[1..k -> S] : k \in 0..n}

\* the module names the prompt accepts
ModuleNames == {m \in Texts(NameSyms, MaxNameLen) : validateInput(m)}

\* the I/O calls of createModuleStructure: 4 mkdirSync, 5 writeFileSync
IoCalls == 1..(Len(ModuleDirs(<<>>)) + Len(ModuleFiles(<<>>)))

\* the I/O calls that may throw: the mkdirSync of include/<name>, the first
\* writeFileSync and the last
FaultCalls == {2, 5, 9}

ScaffoldSite == <<"w1", "templates">>

InitScaffold ==
    /\ sub = [content |-> <<>>, name |-> <<>>, result |-> <<>>, done |-> FALSE]
    /\ dirs = {W1, ScaffoldSite}
    /\ bulky = {}
    /\ files \in {NoFiles}
                 \cup {[f \in {Join(ScaffoldSite, "template.src.cpp")} |->
                          [body |-> SiteBody(ScaffoldSite), readable |-> r]] :
                        r \in BOOLEAN}
    /\ located = [ran |-> FALSE, root |-> <<>>, found |-> <<>>]
    /\ workspaceFolders = <<W1>>
    /\ templateDirs = Undefined
    /\ outDirs = {}
    /\ outFiles = NoFiles
    /\ hist = [calls |-> 0, searchedAt |-> {}, runs |-> 0]
    /\ last = NoCommand

NextScaffold ==
    \/ \E m \in ModuleNames, fault \in {0} \cup FaultCalls :
          /\ \A d \in outDirs : d[1] = m
          /\ createModule(m, fault)
    \/ refreshTemplates

SpecScaffold == InitScaffold /\ [][NextScaffold]_vars

(***************************************************************************)
(* The substitution on its own.                                            *)
(***************************************************************************)
Substitution ==
    /\ ~sub.done
    /\ sub' = [sub EXCEPT !.result = Substitute(sub.content, sub.name),
                          !.done = TRUE]
    /\ UNCHANGED <<dirs, bulky, files, located, workspaceFolders, templateDirs,
                   outDirs, outFiles, hist, last>>

InitSubst ==
    /\ sub \in {[content |-> c, name |-> m, result |-> <<>>, done |-> FALSE] :
                  c \in Texts(ContentSyms, MaxLen), m \in ModuleNames}
    /\ dirs = {}
    /\ bulky = {}
    /\ files = NoFiles
    /\ located = [ran |-> FALSE, root |-> <<>>, found |-> <<>>]
    /\ workspaceFolders = <<>>
    /\ templateDirs = Undefined
    /\ outDirs = {}
    /\ outFiles = NoFiles
    /\ hist = [calls |-> 0, searchedAt |-> {}, runs |-> 0]
    /\ last = NoCommand

NextSubst == Substitution

SpecSubst == InitSubst /\ [][NextSubst]_vars

(***************************************************************************)
(* The search on its own: a chain of plain directories below the root, and *)
(* what the environment puts below the end of the chain before the search  *)
(* runs.                                                                   *)
(***************************************************************************)
Chain(k) == [i \in 1..(k + 1) |-> IF i = 1 THEN "w1" ELSE "a"]

IsChain(d) == \A i \in 2..Len(d) : d[i] = "a"

\* the names of the directories the environment adds
ExtraNames == {"b", "build", "templates", ".templates"}

Extras == {d \in dirs : ~IsChain(d)}

Locate(rootDir) ==
    /\ located' = [ran |-> TRUE, root |-> rootDir, found |-> findTemplateDirs(rootDir)]
    /\ located' # located
    /\ UNCHANGED <<sub, dirs, bulky, files, workspaceFolders, templateDirs,
                   outDirs, outFiles, hist, last>>

InitLocate ==
    /\ sub = [content |-> <<>>, name |-> <<>>, result |-> <<>>, done |-> FALSE]
    /\ \E k \in 0..MaxSpine : dirs = {Chain(j) : j \in 0..k}
    /\ bulky = {}
    /\ files = NoFiles
    /\ located = [ran |-> FALSE, root |-> <<>>, found |-> <<>>]
    /\ workspaceFolders = <<W1>>
    /\ templateDirs = Undefined
    /\ outDirs = {}
    /\ outFiles = NoFiles
    /\ hist = [calls |-> 0, searchedAt |-> {}, runs |-> 0]
    /\ last = NoCommand

NextLocate ==
    \/ \E parent \in dirs, n \in ExtraNames :
          /\ ~located.ran
          /\ Cardinality(Extras) < MaxExtraDirs
          /\ \A d \in dirs : IsChain(d) => IsPrefix(d, parent)
          /\ Mkdir(Join(parent, n))
    \/ \E d \in dirs :
          /\ ~located.ran
          /\ Last(d) \in TemplateDirNames
          /\ PutTemplate(d, "template.src.cpp", <<"FOO">>, TRUE)
    \/ \E d \in dirs :
          /\ ~located.ran
          /\ bulky = {}
          /\ \A c \in dirs : IsChain(c) => IsPrefix(c, d)
          /\ Last(d) \notin TemplateDirNames
          /\ Fill(d)
    \/ Locate(W1)

SpecLocate == InitLocate /\ [][NextLocate]_vars

(***************************************************************************)
(* The properties.                                                         *)
(***************************************************************************)
\* the directories and files the layout names for module m
LayoutDirs(m) ==
    {<<m>>, <<m, <<"include">>, m>>, <<m, <<"src">>>>, <<m, <<"tests">>>>}

LayoutFile(i, m) ==
    CASE i = 1 -> <<m, <<"include">>, m, m \o <<".hpp">>>>
      [] i = 2 -> <<m, <<"src">>, m \o <<".cpp">>>>
      [] i = 3 -> <<m, <<"tests">>, <<"test_">> \o m \o <<".cpp">>>>
      [] i = 4 -> <<m, <<"CMakeLists.txt">>>>
      [] i = 5 -> <<m, <<"tests">>, <<"CMakeLists.txt">>>>

LayoutFiles(m) == {LayoutFile(i, m) : i \in 1..5}

Roles == 1..5

\* what lies below the module directory of m
DirsBelow(m) == {d \in outDirs : d[1] = m}
FilesBelow(m) == {f \in DOMAIN outFiles : f[1] = m}

Completed == last.cmd = "createModule" /\ last.ok

RECURSIVE Documented(_, _)
Documented(content, m) ==
    IF content = <<>> THEN <<>>
    ELSE IF IsPrefix(TokName, content)
         THEN m \o Documented(SubSeq(content, Len(TokName) + 1, Len(content)), m)
    ELSE IF IsPrefix(TokUpper, content)
         THEN toUpperCase(m)
                \o Documented(SubSeq(content, Len(TokUpper) + 1, Len(content)), m)
    ELSE IF IsPrefix(TokLower, content)
         THEN toLowerCase(m)
                \o Documented(SubSeq(content, Len(TokLower) + 1, Len(content)), m)
    ELSE <<Head(content)>> \o Documented(Tail(content), m)

\* C2: the substituted text is the content with every @MODULE_NAME@ replaced
\* by the module name as entered, every @MODULE_NAME_UPPER@ by the name in
\* uppercase and every @MODULE_NAME_LOWER@ by the name in lowercase.
C2_AsDocumented ==
    sub.done => sub.result = Documented(sub.content, sub.name)

Occurs(pat, s) ==
    \E k \in 1..Len(s) : k + Len(pat) - 1 <= Len(s)
                          /\ SubSeq(s, k, k + Len(pat) - 1) = pat

\* C3: the substituted text holds no occurrence of any of the three tokens.
C3_NoTokenLeft ==
    sub.done =>
        /\ ~Occurs(TokName, sub.result)
        /\ ~Occurs(TokUpper, sub.result)
        /\ ~Occurs(TokLower, sub.result)

\* the cached directories that hold a readable file of that name, and those
\* among the first n that hold an unreadable one
Readable(list, t) ==
    {k \in 1..Len(list) : /\ Join(list[k], t) \in DOMAIN files
                          /\ files[Join(list[k], t)].readable}
Unreadable(list, t, n) ==
    {k \in 1..n : /\ Join(list[k], t) \in DOMAIN files
                  /\ ~files[Join(list[k], t)].readable}
First(S) == CHOOSE k \in S : \A j \in S : k <= j

\* the error messages role i causes: one for each unreadable file before the
\* directory that serves it
NoticesOf(list, i) ==
    LET t == optionalTemplates[i]
    IN  Cardinality(Unreadable(list, t,
            IF Readable(list, t) = {} THEN Len(list)
            ELSE First(Readable(list, t)) - 1))

RECURSIVE NoticesUpTo(_, _)
NoticesUpTo(list, i) ==
    IF i = 0 THEN 0 ELSE NoticesUpTo(list, i - 1) + NoticesOf(list, i)

\* C4: a createModule command writes, for each role, the substituted content
\* of the first cached directory whose file of that role exists and can be
\* read, or the default when there is none; it shows one error message for
\* each unreadable file it passed on the way, and none for any directory after
\* the one that served the role.
C4_FirstMatch ==
    [][(hist'.runs # hist.runs /\ last'.ok) =>
         LET list == templateDirs'.list
             m == last'.name
         IN  /\ \A i \in Roles :
                  LET t == optionalTemplates[i]
                      good == Readable(list, t)
                  IN  /\ last'.sources[i] = IF good = {} THEN 0 ELSE First(good)
                      /\ outFiles'[LayoutFile(i, m)] =
                           IF good = {} THEN getDefaultTemplate(t, m)
                           ELSE Substitute(files[Join(list[First(good)], t)].body, m)
             /\ last'.notices = NoticesUpTo(list, 5)
      ]_vars

\* a run whose header came from the third cached directory, after one that
\* lacks the file and one whose file could not be read
C4_Witness ==
    /\ Completed
    /\ Len(templateDirs.list) = 3
    /\ last.sources[1] = 3
    /\ last.notices = 1

\* the stub of each role
Stub(i) ==
    CASE i = 1 -> <<"// Blank header">>
      [] i = 2 -> <<"// Blank src">>
      [] i = 3 -> <<"// Blank test">>
      [] i = 4 -> <<"# Blank cmake">>
      [] i = 5 -> <<"# Blank test cmake">>

\* C5: after a complete run, every role for which no cached directory holds
\* a readable file (every role, when the cached list is empty) has its file
\* hold the stub of the role, which is not empty and does not depend on the
\* module name.
C5_Fallback ==
    Completed =>
        \A i \in Roles :
            Readable(templateDirs.list, optionalTemplates[i]) = {} =>
                /\ outFiles[LayoutFile(i, last.name)] = Stub(i)
                /\ Stub(i) # <<>>

\* a complete run with an empty cached list: five stubs
C5_Witness ==
    /\ Completed
    /\ templateDirs.defined
    /\ templateDirs.list = <<>>
    /\ \A i \in Roles : outFiles[LayoutFile(i, last.name)] = Stub(i)

\* C6: in the cached list a shallower directory always precedes a deeper one.
C6_ShallowerFirst ==
    templateDirs.defined =>
        \A i, j \in 1..Len(templateDirs.list) :
            i < j => SplitLength(templateDirs.list[i])
                        <= SplitLength(templateDirs.list[j])

\* C7: findTemplateDirs returns no directory more than 10 levels below the
\* root.
C7_DepthCap ==
    located.ran =>
        \A i \in 1..Len(located.found) :
            Len(located.found[i]) - Len(located.root) <= 10

\* the names under which a subtree is not searched
PrunedNames ==
    {"node_modules", ".git", ".svn", ".hg", "build", "dist", "out",
     "target", "bin", "obj", ".vscode-test", "__pycache__", ".pytest_cache",
     "CMakeFiles", ".vs", ".idea", "Debug", "Release", "x64", "x86",
     "templates", ".templates"}

InsidePruned(root, p) ==
    \E k \in (Len(root) + 1)..(Len(p) - 1) : p[k] \in PrunedNames

\* C8: no directory findTemplateDirs returns lies strictly inside a directory
\* below the root that has a deny-listed name or is named templates or
\* .templates.
C8_PrunedNotSearched ==
    located.ran =>
        \A i \in 1..Len(located.found) :
            ~InsidePruned(located.root, located.found[i])

\* a search that returned a templates directory and passed over a directory
\* with template files inside it
C8_Witness ==
    /\ located.ran
    /\ located.found # <<>>
    /\ \E d \in dirs :
         /\ hasTemplateFiles(d)
         /\ Last(d) \in TemplateDirNames
         /\ Last(Parent(d)) \in TemplateDirNames
         /\ \A i \in 1..Len(located.found) : located.found[i] # d

\* C9: of the getTemplateContent calls made since the last refresh (or the
\* start), only the first one ever runs findTemplateDirs.
C9_SearchOnce == hist.searchedAt \subseteq {1}

\* two runs, ten calls, one search at the first; the stored list is empty
\* though the file system now holds a template directory
C9_Witness ==
    /\ hist.calls = 10
    /\ hist.searchedAt = {1}
    /\ templateDirs.list = <<>>
    /\ findAll(workspaceFolders) # <<>>

\* C10: after a refresh with a workspace folder open the cache is populated
\* and holds exactly what that refresh discovered, also when that is nothing.
C10_RefreshStores ==
    (last.cmd = "refreshTemplates" /\ workspaceFolders # <<>>) =>
        /\ templateDirs.defined
        /\ templateDirs.list = last.discovered

====
